---- MODULE Spec2Model ----
(***************************************************************************)
(* Topology update engine of the base-cell optimizer (SILP):               *)
(*   - filters.py       get_sfil, get_mope                                 *)
(*   - rem_islands.py   visit, get_neighbors                               *)
(*   - basecell_silp.py setup, the SILP loop and the final island removal  *)
(*                                                                         *)
(* Boolean arrays of length N are modelled as the set of indices that are  *)
(* True.  Real quantities live on an integer grid; the tolerance `small`   *)
(* of the code is below the grid's resolution, so that                     *)
(*      a >  b - small        is   a >= b                                  *)
(*      a <  small            is   a <= 0                                  *)
(*      a > -small            is   a >= 0                                  *)
(*      a < (1-small)*b       is   a <  b        (for b >= 0)              *)
(* Volumes (sum(.)/N) are kept as element counts.                          *)
(***************************************************************************)
EXTENDS Integers, FiniteSets, Sequences, TLC

\* ------------------------------------------------------------------ setup
\* fixed properties (basecell_silp.py 62-90), scaled to a 4 x 4 design domain
Ns == 4
N == Ns * Ns
Eyvar == 1
nuvar == 2
patience == 2
dXmax == 1
\* weight of the squared Poisson error against one element of volume in obj
ObjWeight == 2

\* bounds of the model
MaxRuns == 2
MaxIt == 6

Elems == 0 .. (N - 1)
Topologies == SUBSET Elems
\* value of the name continent_vol before its first assignment (a volume is
\* never negative), and of the name elist before its first assignment
Unbound == -1
UnboundList == {Unbound}

Abs(v) == IF v < 0 THEN -v ELSE v
Max(a, b) == IF a > b THEN a ELSE b
Min(a, b) == IF a < b THEN a ELSE b
SymDiff(a, b) == (a \ b) \cup (b \ a)

\* Python index: a negative index counts from the end of the array
Idx(e) == IF e < 0 THEN N + e ELSE e

\* ------------------------------------------------------- mesh collaborator
\* row and column of a design element in the Ns x Ns grid
RowOf(e) == e \div Ns
ColOf(e) == e % Ns

\* neighbors.npy: 4 face neighbours of every design element, folded onto the
\* design domain; across a symmetry line the neighbour is the mirror image
\* of the element, which folds onto the element itself
GridNeighbors ==
  [e \in Elems |->
     << IF ColOf(e) > 0 THEN e - 1 ELSE e,
        IF ColOf(e) < Ns - 1 THEN e + 1 ELSE e,
        IF RowOf(e) > 0 THEN e - Ns ELSE e,
        IF RowOf(e) < Ns - 1 THEN e + Ns ELSE e >>]

\* Mf (mfil_*.npy): for every design element the set of columns with a
\* nonzero entry in its row: the element and its face neighbours
MfRow(i) == {i} \cup {GridNeighbors[i][k] : k \in 1 .. 4}
\* the matrix read from mfil_data.npy, mfil_row.npy and mfil_col.npy
MfLoaded == [i \in Elems |-> [k \in Elems |-> IF k \in MfRow(i) THEN 1 ELSE 0]]

\* ------------------------------------------------- mesh data of the loop
VARIABLES
  Mf,             \* the morphology filter: entry Mf[e][k] of row e, column k
  neighbors       \* neighbour table: 4 entries for every design element

\* ------------------------------------------------------------ rem_islands
\* visit(e,x,continent,neighbors): recursive depth-first flood fill
RECURSIVE visit(_, _, _, _), visitFrom(_, _, _, _, _)
visitFrom(e, k, x, continent, nbrs) ==
  IF k > 4 THEN continent
  ELSE LET ee == nbrs[Idx(e)][k]
       IN IF Idx(ee) \in x /\ Idx(ee) \notin continent
          THEN visitFrom(e, k + 1, x, visit(ee, x, continent, nbrs), nbrs)
          ELSE visitFrom(e, k + 1, x, continent, nbrs)
visit(e, x, continent, nbrs) ==
  visitFrom(e, 1, x, continent \cup {Idx(e)}, nbrs)

\* ------------------------------------------------------ morphology (Mf)
\* Mf[rows,:].indices: the columns with a stored entry in the given rows
MfIndices(rows) == {k \in Elems : \E i \in rows : Mf[i][k] # 0}
\* an erosion that voids an element when its own row holds a void element
ErodeByOwnRow(y) == {j \in y : \A k \in Elems : Mf[j][k] # 0 => k \in y}
\* y[Mf[~y,:].indices] = False
Erode(y) == y \ MfIndices(Elems \ y)
\* y[Mf[y,:].indices] = True
Dilate(y) == y \cup MfIndices(y)
\* open operator (erode + dilate)
Open(y) == Dilate(Erode(y))

\* ------------------------------------------------------- island removal
\* a scan that takes the first column, below element 0, before the first row
SeedsColumnFirst == [i \in 1 .. (2 * Ns - 1) |-> IF i < Ns THEN i * Ns ELSE i - Ns]
\* scan order of the seeds: first row, then first column
Seeds == [i \in 1 .. (2 * Ns - 1) |-> IF i <= Ns THEN i - 1 ELSE (i - Ns) * Ns]

\* the test `continent_vol > 0.50*voly`, both as element counts
Dominant(cvol, y) == 2 * cvol > Cardinality(y)

\* the seed loop; cvol is the value the name continent_vol holds on entry
RECURSIVE SeedScan(_, _, _, _)
SeedScan(i, y, continent, cvol) ==
  IF i > Len(Seeds)
  THEN [continent |-> continent, continent_vol |-> cvol, error |-> FALSE, seed |-> 0]
  ELSE LET e == Seeds[i]
           grow == e \in y /\ e \notin continent
           c1 == IF grow THEN visit(e, y, {}, neighbors) ELSE continent
           v1 == IF grow THEN Cardinality(c1) ELSE cvol
       IN IF v1 = Unbound
          THEN [continent |-> c1, continent_vol |-> v1, error |-> TRUE, seed |-> i]
          ELSE IF Dominant(v1, y)
               THEN [continent |-> c1, continent_vol |-> v1, error |-> FALSE, seed |-> i]
               ELSE SeedScan(i + 1, y, c1, v1)

\* islands = np.argwhere(y!=continent).ravel()
Islands(y, continent) == SymDiff(y, continent)

\* a selection that takes the islands of largest magnitude
RECURSIVE LargestBy(_, _, _)
LargestBy(field, islands, k) ==
  IF k = 0 \/ islands = {} THEN {{}}
  ELSE UNION {{{a} \cup S : S \in LargestBy(field, islands \ {a}, k - 1)} :
                a \in {b \in islands :
                         \A c \in islands : Abs(field[b]) >= Abs(field[c])}}
\* the sets argsort(abs(field[islands]))[:k] can select: k islands none of
\* which has a larger magnitude than an island left out (ties in any order)
RECURSIVE SmallestBy(_, _, _)
SmallestBy(field, islands, k) ==
  IF k = 0 \/ islands = {} THEN {{}}
  ELSE UNION {{{a} \cup S : S \in SmallestBy(field, islands \ {a}, k - 1)} :
                a \in {b \in islands :
                         \A c \in islands : Abs(field[b]) <= Abs(field[c])}}

\* the sets of islands the loop's disposition can set to void
IslandsToRemove(islands, fEy_field) ==
  IF Cardinality(islands) > dXmax
  THEN SmallestBy(fEy_field, islands, dXmax)
  ELSE {islands}

\* "remove islands" of the loop (basecell_silp.py 548-564) applied to y with
\* the name continent_vol holding cvol on entry: the outcomes it can have
RemoveIslands(yy, cvol, field) ==
  LET scan == SeedScan(1, yy, {}, cvol)
      dom == ~scan.error /\ Dominant(scan.continent_vol, yy)
      isl == IF dom THEN Islands(yy, scan.continent) ELSE {}
  IN {[error |-> scan.error, seed |-> scan.seed, continent |-> scan.continent,
       continent_vol |-> scan.continent_vol, dominant |-> dom, islands |-> isl,
       removed |-> R, y |-> yy \ R] :
        R \in (IF dom THEN IslandsToRemove(isl, field) ELSE {{}})}

\* ------------------------------------------- physical-state collaborator
\* Initial Topology: all material, less Ns//16 rows of holes (none for Ns < 16)
x_init == Elems

\* homogenized properties Ch = Ug.T @ Kg_csc @ Ug of the stiffness Kg and the
\* displacement Ug, each named by the topology it was assembled / solved for
\* modulus: the weakest row of the cell carries the load
RowElems(r) == {e \in Elems : RowOf(e) = r}
EyOf(t) ==
  CHOOSE m \in 0 .. Ns :
    /\ \E r \in 0 .. (Ns - 1) : Cardinality(t \cap RowElems(r)) = m
    /\ \A r \in 0 .. (Ns - 1) : Cardinality(t \cap RowElems(r)) >= m
\* Poisson ratio: set by the material in the interior of the domain
Interior == {e \in Elems : RowOf(e) \in 1 .. (Ns - 2) /\ ColOf(e) \in 1 .. (Ns - 2)}
NuOf(t) == Cardinality(t \cap Interior) - 2
EyhatOf(Kg, U) == IF Kg = U THEN EyOf(Kg) ELSE 0
NuhatOf(Kg, U) == IF Kg = U THEN NuOf(Kg) ELSE 0

\* topopt.update(x,...,Kg_coo,...,elist,solve_sys): flips x and the stiffness
\* entries of the listed elements in place; solves for Ug unless solve_sys
\* is False
update(xx, Kg, U, el, solve_sys) ==
  LET x1 == SymDiff(xx, el)
      K1 == SymDiff(Kg, el)
  IN [x |-> x1, Kg_coo |-> K1, Ug |-> IF solve_sys THEN K1 ELSE U]

\* target Poisson's ratio (limited variation)
EtaNu(nuh, nuv) ==
  IF nuh > nuv THEN Max(nuh - nuv - nuvar, 0) ELSE Min(nuh - nuv + nuvar, 0)
\* obj = fnu_g + beta*vol
ObjOf(nuh, nuv, xx) ==
  LET nu_g == nuv + EtaNu(nuh, nuv)
  IN ObjWeight * (nuh - nu_g) * (nuh - nu_g) + Cardinality(xx)
\* eta_Ey = max([fEy - Eyvar, 0.0])
EtaEy(f) == Max(f - Eyvar, 0)

\* ---------------------------------- sensitivity and sub-solver collaborators
\* the inputs inputmat can hold: << nuval, Eymin >>
InputSet == {<<-2, 1>>, <<1, 3>>, <<2, 5>>}

\* sensitivity analysis (cgs, ws, Sf filtering and momentum) of a topology
\* for a target: the filtered modulus sensitivity fil_Ey = Sf @ s_Ey, the
\* filtered objective sensitivity fil_obj = Sf @ raw_obj and the normalised
\* momentum mom_obj, which takes the sign of fil_obj
SensA ==
  [fil_Ey |-> [e \in Elems |-> 1 + (e % 3)],
   fil_obj |-> [e \in Elems |-> IF e \in {5, 6} THEN 2 ELSE (e % 3) - 3],
   mom_obj |-> [e \in Elems |-> IF e \in {5, 6} THEN 1 ELSE -1]]
SensB ==
  [fil_Ey |-> [e \in Elems |-> IF e \in {0, 3} THEN -1 ELSE 2],
   fil_obj |-> [e \in Elems |-> IF e = 3 THEN 3 ELSE IF e = 10 THEN 0 ELSE -1 - (e % 2)],
   mom_obj |-> [e \in Elems |-> IF e = 3 THEN 1 ELSE IF e = 10 THEN 0 ELSE -1]]
Sens(xx, nuv) == IF (Cardinality(xx) + nuv) % 2 = 0 THEN SensA ELSE SensB

\* a selection that takes a material element on a non-negative, and a void
\* element on a non-positive, modulus sensitivity
SelectionSameSign(xx, mom, fil) ==
  {e \in Elems :
     \/ (e \in xx /\ (mom[e] >= 0 \/ fil[e] >= 0))
     \/ (e \notin xx /\ (mom[e] <= 0 \/ fil[e] <= 0))}
\* selection = (x & (mom_obj>-small)) | ((~x) & (mom_obj<small))
\*           | (x & (fil_Ey<small)) | ((~x) & (fil_Ey>-small))
Selection(xx, mom, fil) ==
  {e \in Elems :
     \/ (e \in xx /\ mom[e] >= 0)
     \/ (e \notin xx /\ mom[e] <= 0)
     \/ (e \in xx /\ fil[e] <= 0)
     \/ (e \notin xx /\ fil[e] >= 0)}

\* a dispatch on the floor alone
UseBESOFloorOnly(Eym, eta) == Eym <= 0
\* (Eymin + eta_Ey) < small: the unconstrained solver is called
UseBESO(Eym, eta) == Eym + eta <= 0

\* the subsets of s with at most k elements
RECURSIVE UpTo(_, _)
UpTo(s, k) ==
  IF k = 0 THEN {{}}
  ELSE LET less == UpTo(s, k - 1)
       IN less \cup {F \cup {e} : F \in less, e \in s}

\* solve_ILP / solve_BESO: a new assignment of the selected elements that
\* changes at most dXmax of them; the other elements keep their state
SolverOutputs(xx, sel) ==
  {SymDiff(xx, flips) : flips \in UpTo(sel, dXmax)}

\* an improvement test that an equal objective passes
ObjNotWorse(o, o_opt) == o <= o_opt
\* stopping criterion: the two improvement tests and the floor test
ObjImproved(o, o_opt) == o < o_opt
NuImproved(nuh, nuo, nuv) == Abs(nuh - nuv) < Abs(nuo - nuv)
FloorOk(Eyh, Eym) == Eyh >= Eym

\* ------------------------------------------------------------------ state
VARIABLES
  pc,             \* "setup", "iterate", "finalize", "done" or "error"
  runs,           \* number of inputs processed so far (fid - fid_ini)
  nuval, Eymin,   \* the input of the current run
  x,              \* running topology
  y,              \* candidate topology of the step
  Kg_coo,         \* topology the stiffness matrix is assembled for
  Ug,             \* topology the displacements were solved for
  factor,         \* topology the Cholesky factor was computed for
  nuhat, Eyhat,   \* homogenized properties
  obj,            \* objective
  fEy, eta_Ey,    \* modulus margin and its one-iteration slack
  fil_Ey,         \* filtered modulus sensitivity
  fil_obj,        \* filtered objective sensitivity
  mom_obj,        \* momentum (normalised) objective sensitivity
  top_opt, nu_opt, Ey_opt, obj_opt,
  waiting, it,
  elist,          \* list of the elements of the last update
  continent_vol,  \* volume of the last continent grown
  inputmat,       \* the rows << nuval, Eymin >> of the input file
  fid_lim,        \* number of inputs the batch processes
  rsen,           \* sensitivity filter radius get_sfil is called with
  Sf,             \* the sensitivity filter get_sfil builds, row by row
  rmor,           \* morphology filter radius get_mope is called with
  nodes,          \* get_neighbors: the elements around every mesh node
  counter,        \* get_neighbors: number of slots filled, per node
  neighbors_extended,  \* get_neighbors: neighbours in the extended mesh
  hist            \* what the last step did (observation only)

vars == << pc, runs, nuval, Eymin, x, y, Kg_coo, Ug, factor, nuhat, Eyhat, obj, fEy,
           eta_Ey, fil_Ey, fil_obj, mom_obj, top_opt, nu_opt, Ey_opt, obj_opt,
           waiting, it, elist, continent_vol, inputmat, fid_lim, rsen, Sf, rmor, Mf,
           neighbors, nodes, counter, neighbors_extended, hist >>

\* the filters, the neighbour table and the input file: read-only in the loop
loaded == << inputmat, fid_lim, rsen, Sf, rmor, Mf, neighbors, nodes, counter,
             neighbors_extended >>

\* ----------------------------------------------------- observation, Init
NoHist ==
  [step |-> "none", x0 |-> {}, solver |-> "none", ysel |-> {}, yopen |-> {},
   cvol_in |-> Unbound, seed |-> 0, dominant |-> FALSE, islands |-> {},
   removed |-> {}, yisl |-> {}, ystep |-> {}, eroded |-> FALSE, updated |-> FALSE,
   rolled |-> FALSE, x_rb |-> {}, Ey_test |-> 0, accept |-> FALSE, nuimp |-> FALSE,
   objimp |-> FALSE, y |-> {}, continent |-> {}, top0 |-> {}, nu0 |-> 0, Ey0 |-> 0, obj0 |-> 0, waiting0 |-> 0,
   fil0 |-> [e \in Elems |-> 0], filobj0 |-> [e \in Elems |-> 0],
   mom0 |-> [e \in Elems |-> 0], sel |-> {}, eta0 |-> 0, fails |-> 0]

\* the filters and the neighbour table are read from their files
\* (basecell_silp.py 180-190, 216-217); get_neighbors does not run
NoNeighborWork == nodes = << >> /\ counter = << >> /\ neighbors_extended = << >>
LoadedFiles ==
  /\ rsen = 0 /\ Sf = << >>
  /\ rmor = 0 /\ Mf = MfLoaded
  /\ neighbors = GridNeighbors
  /\ NoNeighborWork

\* state after the Initial Analysis (basecell_silp.py 313-380), for a batch
\* of lim inputs drawn from the rows of the input file
InitBatch(rows, lim) ==
  /\ pc = "setup"
  /\ runs = 0
  /\ nuval = 0 /\ Eymin = 0
  /\ x = x_init /\ y = x_init /\ Kg_coo = x_init /\ Ug = x_init /\ factor = x_init
  /\ nuhat = NuOf(x_init) /\ Eyhat = EyOf(x_init)
  /\ obj = 0 /\ fEy = 0 /\ eta_Ey = 0
  /\ fil_Ey = [e \in Elems |-> 0] /\ fil_obj = [e \in Elems |-> 0]
  /\ mom_obj = [e \in Elems |-> 0]
  /\ top_opt = x_init /\ nu_opt = 0 /\ Ey_opt = 0 /\ obj_opt = 0
  /\ waiting = 0 /\ it = 0
  /\ elist = UnboundList
  /\ continent_vol = Unbound
  /\ inputmat = rows /\ fid_lim = lim
  /\ LoadedFiles
  /\ hist = NoHist

Init == InitBatch(InputSet, MaxRuns)

\* Setup Optimization for the next input (basecell_silp.py 429-526)
Setup ==
  /\ pc = "setup"
  /\ runs < fid_lim
  /\ \E inp \in inputmat : \E s \in {Sens(x_init, inp[1])} :
       LET nuh == NuOf(x_init)
           Eyh == EyOf(x_init)
           f == Eyh - inp[2]
           o == ObjOf(nuh, inp[1], x_init)
       IN /\ nuval' = inp[1] /\ Eymin' = inp[2]
          /\ x' = x_init /\ Kg_coo' = x_init /\ Ug' = x_init
          /\ nuhat' = nuh /\ Eyhat' = Eyh
          /\ fEy' = f /\ eta_Ey' = EtaEy(f)
          /\ fil_Ey' = s.fil_Ey /\ fil_obj' = s.fil_obj /\ mom_obj' = s.mom_obj
          /\ obj' = o
          /\ top_opt' = x_init /\ nu_opt' = nuh /\ Ey_opt' = Eyh /\ obj_opt' = o
          /\ waiting' = 0 /\ it' = 0
          /\ hist' = [NoHist EXCEPT !.step = "setup"]
  /\ pc' = "iterate"
  /\ UNCHANGED << runs, y, factor, elist, continent_vol, loaded >>

\* a NameError: the run stops with the state as it is
Crash(h) ==
  /\ pc' = "error"
  /\ hist' = [h EXCEPT !.step = "error"]
  /\ UNCHANGED << runs, nuval, Eymin, x, y, Kg_coo, Ug, factor, nuhat, Eyhat, obj, fEy,
                  eta_Ey, fil_Ey, fil_obj, mom_obj, top_opt, nu_opt, Ey_opt, obj_opt,
                  waiting, it, elist, continent_vol, loaded >>

\* "go back to last topology and dilate if constraint is broken"
\* (basecell_silp.py 594-603): the physical state after the branch
RollbackDilate(u, el) ==
  LET rb == update(u.x, u.Kg_coo, u.Ug, el, FALSE)
      yd == Dilate(rb.x)
      el2 == SymDiff(rb.x, yd)
      u2 == update(rb.x, rb.Kg_coo, rb.Ug, el2, TRUE)
  IN [x |-> u2.x, Kg_coo |-> u2.Kg_coo, Ug |-> u2.Ug, y |-> yd, elist |-> el2,
      x_rb |-> rb.x]

\* a rollback test that lets a margin of one grid step below the floor pass
FloorBrokenLate(Eyh, Eym) == Eyh - Eym < -1
\* test of the rollback branch: fEy_test < 0.0
FloorBroken(Eyh, Eym) == Eyh - Eym < 0

\* a convergence test that waits for one more failed pass
ConvergedLate(w) == w > patience
\* check convergence: waiting == patience
Converged(w) == w = patience

\* erode if nothing has been changed
StagnationGuard(xx, yy) == IF xx = yy THEN Erode(yy) ELSE yy

\* one pass of the SILP loop (basecell_silp.py 530-692)
Iterate ==
  /\ pc = "iterate"
  /\ it < MaxIt
  /\ \E sel \in {Selection(x, mom_obj, fil_Ey)} :
     \E ysel \in SolverOutputs(x, sel) :
     \E yopen \in {Open(ysel)} :
     \E ri \in RemoveIslands(yopen, continent_vol, fil_Ey) :
     \E h1 \in {[NoHist EXCEPT !.step = "iterate", !.x0 = x, !.cvol_in = continent_vol,
                  !.top0 = top_opt, !.nu0 = nu_opt, !.Ey0 = Ey_opt, !.obj0 = obj_opt,
                  !.waiting0 = waiting, !.fil0 = fil_Ey, !.filobj0 = fil_obj,
                  !.mom0 = mom_obj, !.sel = sel, !.eta0 = eta_Ey,
                  !.solver = IF sel = {} THEN "none"
                             ELSE IF UseBESO(Eymin, eta_Ey) THEN "BESO" ELSE "ILP",
                  !.ysel = ysel, !.yopen = yopen, !.seed = ri.seed,
                  !.continent = ri.continent]} :
       IF ri.error THEN Crash(h1)
       ELSE
       \E yisl \in {ri.y} :
       \E ystep \in {StagnationGuard(x, yisl)} :
       \E upd \in {x # ystep} :
       \E el1 \in {IF upd THEN SymDiff(x, ystep) ELSE elist} :
       \E u1 \in {IF upd THEN update(x, Kg_coo, Ug, el1, TRUE)
                   ELSE [x |-> x, Kg_coo |-> Kg_coo, Ug |-> Ug]} :
       \E Ey1 \in {EyhatOf(u1.Kg_coo, u1.Ug)} :
       \E roll \in {FloorBroken(Ey1, Eymin)} :
       \E h2 \in {[h1 EXCEPT !.dominant = ri.dominant, !.islands = ri.islands,
                           !.removed = ri.removed, !.yisl = yisl, !.ystep = ystep,
                           !.eroded = (x = yisl), !.updated = upd, !.rolled = roll,
                           !.Ey_test = Ey1]} :
         IF roll /\ el1 = UnboundList THEN Crash(h2)
         ELSE
         \E r \in {IF roll THEN RollbackDilate(u1, el1)
                    ELSE [x |-> u1.x, Kg_coo |-> u1.Kg_coo, Ug |-> u1.Ug,
                          y |-> ystep, elist |-> el1, x_rb |-> {}]} :
         \E nuh \in {NuhatOf(r.Kg_coo, r.Ug)} :
         \E Eyh \in {EyhatOf(r.Kg_coo, r.Ug)} :
         \E o \in {ObjOf(nuh, nuval, r.x)} :
         \E oimp \in {ObjImproved(o, obj_opt)} :
         \E nimp \in {NuImproved(nuh, nu_opt, nuval)} :
         \E acc \in {(oimp \/ nimp) /\ FloorOk(Eyh, Eymin)} :
            /\ x' = r.x /\ y' = r.y /\ Kg_coo' = r.Kg_coo /\ Ug' = r.Ug
            /\ factor' = IF upd \/ roll THEN r.Kg_coo ELSE factor
            /\ elist' = r.elist
            /\ continent_vol' = ri.continent_vol
            /\ nuhat' = nuh /\ Eyhat' = Eyh /\ obj' = o
            /\ fEy' = Eyh - Eymin /\ eta_Ey' = EtaEy(Eyh - Eymin)
            /\ \E s \in {Sens(r.x, nuval)} :
                 fil_Ey' = s.fil_Ey /\ fil_obj' = s.fil_obj /\ mom_obj' = s.mom_obj
            /\ it' = it + 1
            /\ IF acc
               THEN /\ waiting' = 0
                    /\ obj_opt' = o
                    /\ IF nimp
                       THEN top_opt' = r.x /\ nu_opt' = nuh /\ Ey_opt' = Eyh
                       ELSE UNCHANGED << top_opt, nu_opt, Ey_opt >>
                    /\ pc' = "iterate"
               ELSE /\ waiting' = waiting + 1
                    /\ UNCHANGED << top_opt, nu_opt, Ey_opt, obj_opt >>
                    /\ pc' = IF Converged(waiting + 1) THEN "finalize"
                             ELSE "iterate"
            /\ hist' = [h2 EXCEPT !.x_rb = r.x_rb, !.y = r.y, !.accept = acc,
                         !.nuimp = nimp, !.objimp = oimp,
                         !.fails = IF acc THEN 0 ELSE hist.fails + 1]
            /\ UNCHANGED << runs, nuval, Eymin, loaded >>

\* the elements that differ between the best topology and its pruned copy
ChangedFromBest(xx, yy) == SymDiff(top_opt, yy)
\* elist = list(np.argwhere(x!=y)[:,0]) of the final update
ChangedFromRunning(xx, yy) == SymDiff(xx, yy)

\* remove remaining islands from optimized topology, and store
\* (basecell_silp.py 696-746)
Finalize ==
  /\ pc = "finalize"
  /\ \E y0 \in {top_opt} :
     \E scan \in {SeedScan(1, y0, {}, continent_vol)} :
     \E h1 \in {[NoHist EXCEPT !.step = "finalize", !.x0 = x, !.cvol_in = continent_vol,
                  !.top0 = top_opt, !.nu0 = nu_opt, !.Ey0 = Ey_opt, !.obj0 = obj_opt,
                  !.waiting0 = waiting, !.fil0 = fil_Ey, !.yopen = y0,
                  !.seed = scan.seed, !.continent = scan.continent]} :
       IF scan.error THEN Crash(h1)
       ELSE
       \E dom \in {Dominant(scan.continent_vol, y0)} :
       \E islands \in {Islands(y0, scan.continent)} :
       \E y1 \in {IF dom THEN y0 \ islands ELSE y0} :
       \E pruned \in {top_opt # y1} :
       \E upd \in {pruned /\ x # y1} :
       \E el1 \in {IF upd THEN ChangedFromRunning(x, y1) ELSE elist} :
       \E u1 \in {IF upd THEN update(x, Kg_coo, Ug, el1, TRUE)
                   ELSE [x |-> x, Kg_coo |-> Kg_coo, Ug |-> Ug]} :
       \E nuh \in {IF upd THEN NuhatOf(u1.Kg_coo, u1.Ug) ELSE nuhat} :
       \E Eyh \in {IF upd THEN EyhatOf(u1.Kg_coo, u1.Ug) ELSE Eyhat} :
           /\ continent_vol' = scan.continent_vol
           /\ x' = u1.x /\ y' = y1 /\ Kg_coo' = u1.Kg_coo /\ Ug' = u1.Ug
           /\ factor' = IF upd THEN u1.Kg_coo ELSE factor
           /\ elist' = el1
           /\ nuhat' = nuh /\ Eyhat' = Eyh
           /\ IF pruned
              THEN top_opt' = u1.x /\ nu_opt' = nuh /\ Ey_opt' = Eyh
              ELSE UNCHANGED << top_opt, nu_opt, Ey_opt >>
           /\ hist' = [h1 EXCEPT !.dominant = dom, !.islands = IF dom THEN islands ELSE {},
                        !.removed = IF dom THEN islands ELSE {}, !.yisl = y1,
                        !.ystep = y1, !.y = y1, !.updated = upd]
           /\ runs' = runs + 1
           /\ pc' = IF runs + 1 < fid_lim THEN "setup" ELSE "done"
           /\ UNCHANGED << nuval, Eymin, obj, fEy, eta_Ey, fil_Ey, fil_obj, mom_obj,
                           obj_opt, waiting, it, loaded >>

Next == Setup \/ Iterate \/ Finalize

Spec == Init /\ [][Next]_vars

\* a batch of one input without a modulus floor
FreeInputs == {<<1, 0>>}
InitFree == InitBatch(FreeInputs, 1)
SpecFree == InitFree /\ [][Next]_vars

\* ---------------------------------------------------------------- filters
\* largest radius get_sfil is called with, in units of the centroid grid
MaxR == 6
\* number of copies of the design domain in the extended mesh:
\* 6 symmetric copies of the base cell and 4 of the periodic extension
Copies == 10
Expanded == 0 .. (Copies * N - 1)

\* fsym = np.hstack((sym,sym_lb,sym_bot)): the extended-mesh element that is
\* copy j of design element k
fsym == [k \in Elems |-> [j \in 0 .. (Copies - 1) |-> j * N + k]]
\* elepos: centroid of every element of the extended mesh.  The copies tile
\* a 5 x 2 block, odd copies mirrored; centroids lie on a 3 x 4 grid, on
\* which every distance up to MaxR + 1 is a whole number
elepos ==
  [t \in Expanded |->
     LET j == t \div N
         k == t % N
         c == IF j % 2 = 1 THEN Ns - 1 - ColOf(k) ELSE ColOf(k)
     IN << 3 * ((j % 5) * Ns + c), 4 * ((j \div 5) * Ns + RowOf(k)) >>]

\* np.sum((elepos[et,:]-elepos)**2,axis=1)
Dist2(a, b) == (a[1] - b[1]) * (a[1] - b[1]) + (a[2] - b[2]) * (a[2] - b[2])
\* np.linalg.norm(elepos[et,:]-elepos[c,:],axis=1), for distances up to MaxR + 1
Norm(a, b) == CHOOSE d \in 0 .. (MaxR + 1) : d * d = Dist2(a, b)
\* c = np.argwhere(... <= rsen**2): the extended elements within the radius
InRadius(et, r) == {t \in Expanded : Dist2(elepos[et], elepos[t]) <= r * r}
\* weights = rsen - norm
Weights(et, c, r) == [t \in c |-> r - Norm(elepos[et], elepos[t])]

RECURSIVE SumOver(_, _)
SumOver(f, S) ==
  IF S = {} THEN 0
  ELSE LET a == CHOOSE b \in S : TRUE IN f[a] + SumOver(f, S \ {a})

\* a normalisation by the number of neighbours
CountOf(w) == Cardinality(DOMAIN w)
\* sum(weights), the divisor of weights = weights/sum(weights)
SumOfWeights(w) == SumOver(w, DOMAIN w)

\* row e of Sf before the composition: the weights as fractions num / den
SfRow(e, r) ==
  LET et == fsym[e][0]
      c == InRadius(et, r)
      w == Weights(et, c, r)
  IN [csize |-> Cardinality(c), den |-> SumOfWeights(w), num |-> w]

\* Q = coo_matrix((ones,(fsym.ravel(),repeat(arange(N),10)))): entry (t,k)
Q(t, k) == Cardinality({j \in 0 .. (Copies - 1) : fsym[k][j] = t})
\* row of Sf @ Q
ComposeRow(row) ==
  [csize |-> row.csize, den |-> row.den,
   num |-> [k \in Elems |->
              SumOver([t \in DOMAIN row.num |-> row.num[t] * Q(t, k)], DOMAIN row.num)]]

\* get_sfil(N,sym,elepos,Q,rsen) for any radius 0 < rsen <= MaxR
InitFil ==
  /\ pc = "sfil"
  /\ rsen \in 1 .. MaxR
  /\ Sf = << >>
  /\ runs = 0 /\ nuval = 0 /\ Eymin = 0
  /\ x = x_init /\ y = x_init /\ Kg_coo = x_init /\ Ug = x_init /\ factor = x_init
  /\ nuhat = NuOf(x_init) /\ Eyhat = EyOf(x_init)
  /\ obj = 0 /\ fEy = 0 /\ eta_Ey = 0
  /\ fil_Ey = [e \in Elems |-> 0] /\ fil_obj = [e \in Elems |-> 0]
  /\ mom_obj = [e \in Elems |-> 0]
  /\ top_opt = x_init /\ nu_opt = 0 /\ Ey_opt = 0 /\ obj_opt = 0
  /\ waiting = 0 /\ it = 0
  /\ elist = UnboundList
  /\ continent_vol = Unbound
  /\ inputmat = InputSet /\ fid_lim = MaxRuns
  /\ rmor \in 1 .. MaxR /\ Mf = << >>
  /\ neighbors = GridNeighbors
  /\ NoNeighborWork
  /\ hist = NoHist

FilUnchanged ==
  UNCHANGED << runs, nuval, Eymin, x, y, Kg_coo, Ug, factor, nuhat, Eyhat, obj, fEy,
               eta_Ey, fil_Ey, fil_obj, mom_obj, top_opt, nu_opt, Ey_opt, obj_opt,
               waiting, it, elist, continent_vol, inputmat, fid_lim, rsen, rmor,
               neighbors, nodes, counter, neighbors_extended, hist >>

\* one turn of the loop over the rows (filters.py 57-66), for the next e
SfilRow ==
  /\ pc = "sfil"
  /\ Cardinality(DOMAIN Sf) < N
  /\ \E e \in {Cardinality(DOMAIN Sf)} : \E row \in {SfRow(e, rsen)} :
       Sf' = [i \in 0 .. e |-> IF i = e THEN row ELSE Sf[i]]
  /\ pc' = "sfil"
  /\ UNCHANGED Mf
  /\ FilUnchanged

\* Sf = Sf @ Q; return Sf (filters.py 67-70)
SfilCompose ==
  /\ pc = "sfil"
  /\ Cardinality(DOMAIN Sf) = N
  /\ Sf' = [e \in Elems |-> ComposeRow(Sf[e])]
  /\ pc' = "sfil_done"
  /\ UNCHANGED Mf
  /\ FilUnchanged

\* a neighbourhood one grid step wider than the radius
InRadiusWide(et, r) == {t \in Expanded : Dist2(elepos[et], elepos[t]) <= (r + 1) * (r + 1)}
\* c = np.argwhere(... <= rmor**2): the extended elements within the radius
InRadiusMope(et, r) == {t \in Expanded : Dist2(elepos[et], elepos[t]) <= r * r}
\* row e of Mf before the composition: data 1.0 on the columns c
MopeRowOf(e, r) ==
  LET et == fsym[e][0]
      c == InRadiusMope(et, r)
  IN [csize |-> Cardinality(c), num |-> [t \in c |-> 1]]
\* row of Mf @ Q: the entries of the row, by design element
ComposeMope(row) ==
  [k \in Elems |->
     SumOver([t \in DOMAIN row.num |-> row.num[t] * Q(t, k)], DOMAIN row.num)]

\* get_mope(N,sym,elepos,Q,rmor), called after get_sfil has returned
\* (basecell_silp.py 203-209): one turn of the loop over the rows
\* (filters.py 85-92), for the next e
MopeRow ==
  /\ pc \in {"sfil_done", "mope"}
  /\ Cardinality(DOMAIN Mf) < N
  /\ \E e \in {Cardinality(DOMAIN Mf)} : \E row \in {MopeRowOf(e, rmor)} :
       Mf' = [i \in 0 .. e |-> IF i = e THEN row ELSE Mf[i]]
  /\ pc' = "mope"
  /\ UNCHANGED Sf
  /\ FilUnchanged

\* Mf = Mf @ Q; return Mf (filters.py 93-96)
MopeCompose ==
  /\ pc = "mope"
  /\ Cardinality(DOMAIN Mf) = N
  /\ Mf' = [e \in Elems |-> ComposeMope(Mf[e])]
  /\ pc' = "mope_done"
  /\ UNCHANGED Sf
  /\ FilUnchanged

NextFil == SfilRow \/ SfilCompose \/ MopeRow \/ MopeCompose

SpecFil == InitFil /\ [][NextFil]_vars

\* ------------------------------------------- the island removal on its own
\* the value a previous scan can have left in continent_vol
StaleVol == 5
\* number of successive applications of the step
MaxApply == 2

\* the step "remove islands" of the loop applied to any topology y, with any
\* of the values the name continent_vol can hold on entry and a sensitivity
\* field that stays the same between applications
InitIsl ==
  /\ pc = "islands"
  /\ y \in Topologies
  /\ continent_vol \in {Unbound, StaleVol}
  /\ fil_Ey = SensA.fil_Ey /\ fil_obj = SensA.fil_obj /\ mom_obj = SensA.mom_obj
  /\ runs = 0 /\ nuval = 0 /\ Eymin = 0
  /\ x = x_init /\ Kg_coo = x_init /\ Ug = x_init /\ factor = x_init
  /\ nuhat = NuOf(x_init) /\ Eyhat = EyOf(x_init)
  /\ obj = 0 /\ fEy = 0 /\ eta_Ey = 0
  /\ top_opt = x_init /\ nu_opt = 0 /\ Ey_opt = 0 /\ obj_opt = 0
  /\ waiting = 0 /\ it = 0
  /\ elist = UnboundList
  /\ inputmat = InputSet /\ fid_lim = MaxRuns
  /\ LoadedFiles
  /\ hist = NoHist

\* one application (basecell_silp.py 548-564); it counts the applications,
\* hist.x0 keeps the topology the application before was given
ApplyIslands ==
  /\ pc = "islands"
  /\ it < MaxApply
  /\ \E ri \in RemoveIslands(y, continent_vol, fil_Ey) :
     \E h \in {[NoHist EXCEPT !.step = "islands", !.x0 = hist.yopen,
                 !.cvol_in = continent_vol,
                 !.fil0 = fil_Ey, !.filobj0 = fil_obj, !.yopen = y, !.seed = ri.seed,
                 !.continent = ri.continent, !.dominant = ri.dominant,
                 !.islands = ri.islands, !.removed = ri.removed, !.yisl = ri.y,
                 !.y = ri.y]} :
       IF ri.error THEN Crash(h)
       ELSE /\ y' = ri.y
            /\ continent_vol' = ri.continent_vol
            /\ it' = it + 1
            /\ hist' = h
            /\ pc' = "islands"
            /\ UNCHANGED << runs, nuval, Eymin, x, Kg_coo, Ug, factor, nuhat, Eyhat,
                            obj, fEy, eta_Ey, fil_Ey, fil_obj, mom_obj, top_opt, nu_opt,
                            Ey_opt, obj_opt, waiting, elist, loaded >>

NextIsl == ApplyIslands

SpecIsl == InitIsl /\ [][NextIsl]_vars

\* ---------------------------------------------- get_neighbors (rem_islands)
\* The extended mesh of the numbering sketches (basecell_silp.py 93-111 and
\* 149-176): a hexagonal base cell of 6 kites around its centre, one at
\* every vertex, each an Ns x Ns grid of quadrilaterals, and 4 kites of the
\* two hexagons that meet the design kite at its vertex.  Points are kept in
\* lattice coordinates scaled by 2 * Ns * Ns, in which every node is whole.
HexV == << <<1, 0>>, <<0, 1>>, <<-1, 1>>, <<-1, 0>>, <<0, -1>>, <<1, -1>> >>
Vtx(i) == HexV[(i % 6) + 1]
VAdd(a, b) == << a[1] + b[1], a[2] + b[2] >>
VMul(c, a) == << c * a[1], c * a[2] >>

\* corners of copy j of the design domain, each taken twice: the centre c
\* of its hexagon, the midpoints m1, m2 of the two hexagon edges at its
\* vertex, and the vertex v.  Copies that share an edge are mirror images.
Kite(j) ==
  IF j < 6
  THEN LET before == VAdd(Vtx(j + 5), Vtx(j))
           after == VAdd(Vtx(j), Vtx(j + 1))
       IN [c |-> <<0, 0>>,
           m1 |-> IF j % 2 = 0 THEN before ELSE after,
           m2 |-> IF j % 2 = 0 THEN after ELSE before,
           v |-> VMul(2, Vtx(j))]
  ELSE IF j = 6
  THEN [c |-> VMul(2, VAdd(Vtx(5), Vtx(0))), m1 |-> VAdd(Vtx(5), Vtx(0)),
        m2 |-> VMul(3, Vtx(0)), v |-> VMul(2, Vtx(0))]
  ELSE IF j = 7
  THEN [c |-> VMul(2, VAdd(Vtx(5), Vtx(0))), m1 |-> VAdd(Vtx(5), Vtx(0)),
        m2 |-> VMul(3, Vtx(5)), v |-> VMul(2, Vtx(5))]
  ELSE IF j = 8
  THEN [c |-> VMul(2, VAdd(Vtx(0), Vtx(1))), m1 |-> VMul(3, Vtx(0)),
        m2 |-> VAdd(Vtx(0), Vtx(1)), v |-> VMul(2, Vtx(0))]
  ELSE [c |-> VMul(2, VAdd(Vtx(0), Vtx(1))), m1 |-> VMul(3, Vtx(1)),
        m2 |-> VAdd(Vtx(0), Vtx(1)), v |-> VMul(2, Vtx(1))]

\* node (a, b) of the grid of copy j, 0 <= a, b <= Ns: the bilinear map of
\* the kite, (0,0) at c, (Ns,0) at m1, (0,Ns) at m2, (Ns,Ns) at v
NodeAt(j, a, b) ==
  LET K == Kite(j)
  IN [i \in 1 .. 2 |->
        Ns * Ns * K.c[i] + a * Ns * (K.m1[i] - K.c[i])
          + b * Ns * (K.m2[i] - K.c[i])
          + a * b * (K.v[i] - K.m1[i] - K.m2[i] + K.c[i])]

\* finci = np.vstack((inci,inci_lb,inci_bot)): the 4 nodes of every element
finci ==
  [t \in Expanded |->
     LET j == t \div N
         a == ColOf(t % N)
         b == RowOf(t % N)
     IN << NodeAt(j, a, b), NodeAt(j, a + 1, b),
           NodeAt(j, a + 1, b + 1), NodeAt(j, a, b + 1) >>]
NodeSet == {finci[t][c] : t \in Expanded, c \in 1 .. 4}
\* the number of rows of the node table: 1 + 6*Ns*(Ns+1) + Ns + 4*N
NodeCount == 1 + 6 * Ns * (Ns + 1) + Ns + 4 * N
\* the node table has 6 slots per node, the neighbour table 4 per element
NodeSlots == 6
NeighborSlots == 4

RECURSIVE SortedSeq(_)
SortedSeq(S) ==
  IF S = {} THEN << >>
  ELSE LET m == CHOOSE a \in S : \A b \in S : a <= b
       IN << m >> \o SortedSeq(S \ {m})

\* the elements that list node n, in the order the loop of lines 60-64
\* meets them: by element, then by position in the element
Occurrences(n) ==
  LET keys == {4 * t + (c - 1) : t \in {u \in Expanded : \E d \in 1 .. 4 : finci[u][d] = n},
                                c \in 1 .. 4}
      hits == {k \in keys : finci[k \div 4][(k % 4) + 1] = n}
      sq == SortedSeq(hits)
  IN [i \in 1 .. Len(sq) |-> sq[i] \div 4]

\* a test that takes every element that shares at least one node
SharesNode(e, ee) ==
  Cardinality({c \in 1 .. 4 : finci[e][c] \notin {finci[ee][d] : d \in 1 .. 4}}) <= 3
\* len(np.setdiff1d(finci[e,:],finci[ee,:],assume_unique=True)) == 2
SharesEdge(e, ee) ==
  Cardinality({c \in 1 .. 4 : finci[e][c] \notin {finci[ee][d] : d \in 1 .. 4}}) = 2

\* the loops over k and kk for one element e (rem_islands.py 68-76); i
\* counts the pairs (k, kk), row is neighbors_extended[e,:], cnt counter[e]
RECURSIVE ScanSlots(_, _, _, _)
ScanSlots(e, i, row, cnt) ==
  IF i = 4 * NodeSlots THEN [row |-> row, counter |-> cnt, error |-> FALSE]
  ELSE LET n == finci[e][(i \div NodeSlots) + 1]
           ee == nodes[n][(i % NodeSlots) + 1]
       IN IF /\ ee # e /\ ee # -1
             /\ \A c \in 1 .. NeighborSlots : row[c] # ee
             /\ SharesEdge(e, ee)
          THEN IF cnt = NeighborSlots
               THEN [row |-> row, counter |-> cnt, error |-> TRUE]
               ELSE ScanSlots(e, i + 1, [row EXCEPT ![cnt + 1] = ee], cnt + 1)
          ELSE ScanSlots(e, i + 1, row, cnt)

\* e = np.argwhere(fsym==ee)[0,0]: the first design element with a copy ee
DesignOf(ee) ==
  CHOOSE d \in Elems :
    /\ \E j \in 0 .. (Copies - 1) : fsym[d][j] = ee
    /\ \A d2 \in 0 .. (d - 1) : \A j \in 0 .. (Copies - 1) : fsym[d2][j] # ee
Fold(ee) == IF ee = -1 THEN -1 ELSE DesignOf(ee)

\* the call get_neighbors(Ns,inci,inci_lb,inci_bot,sym,sym_lb,sym_bot) of
\* basecell_silp.py 219, made when neighbors.npy does not exist
InitNbr ==
  /\ pc = "nbr_nodes"
  /\ neighbors = << >>
  /\ NoNeighborWork
  /\ runs = 0 /\ nuval = 0 /\ Eymin = 0
  /\ x = x_init /\ y = x_init /\ Kg_coo = x_init /\ Ug = x_init /\ factor = x_init
  /\ nuhat = NuOf(x_init) /\ Eyhat = EyOf(x_init)
  /\ obj = 0 /\ fEy = 0 /\ eta_Ey = 0
  /\ fil_Ey = [e \in Elems |-> 0] /\ fil_obj = [e \in Elems |-> 0]
  /\ mom_obj = [e \in Elems |-> 0]
  /\ top_opt = x_init /\ nu_opt = 0 /\ Ey_opt = 0 /\ obj_opt = 0
  /\ waiting = 0 /\ it = 0
  /\ elist = UnboundList
  /\ continent_vol = Unbound
  /\ inputmat = InputSet /\ fid_lim = MaxRuns
  /\ rsen = 0 /\ Sf = << >> /\ rmor = 0 /\ Mf = MfLoaded
  /\ hist = NoHist

NbrUnchanged ==
  UNCHANGED << runs, nuval, Eymin, x, y, Kg_coo, Ug, factor, nuhat, Eyhat, obj, fEy,
               eta_Ey, fil_Ey, fil_obj, mom_obj, top_opt, nu_opt, Ey_opt, obj_opt,
               waiting, it, elist, continent_vol, inputmat, fid_lim, rsen, Sf,
               rmor, Mf >>

\* the node table (rem_islands.py 58-64): an IndexError if a node is listed
\* by more elements than the table has slots
BuildNodes ==
  /\ pc = "nbr_nodes"
  /\ IF \E n \in NodeSet : Len(Occurrences(n)) > NodeSlots
     THEN Crash([NoHist EXCEPT !.step = "nbr_nodes"])
     ELSE /\ nodes' = [n \in NodeSet |->
                        [i \in 1 .. NodeSlots |->
                           IF i <= Len(Occurrences(n)) THEN Occurrences(n)[i] ELSE -1]]
          /\ counter' = [n \in NodeSet |-> Len(Occurrences(n))]
          /\ hist' = [NoHist EXCEPT !.step = "nbr_nodes"]
          /\ pc' = "nbr_scan"
          /\ UNCHANGED << neighbors_extended, neighbors >>
          /\ NbrUnchanged

\* one turn of the loop over e of rem_islands.py 67-76, for the next element
\* of the extended mesh; counter is the array of line 66
ScanElement ==
  /\ pc = "nbr_scan"
  /\ Cardinality(DOMAIN neighbors_extended) < Copies * N
  /\ \E e \in {Cardinality(DOMAIN neighbors_extended)} :
     \E r \in {ScanSlots(e, 0, [c \in 1 .. NeighborSlots |-> -1], 0)} :
       IF r.error THEN Crash([NoHist EXCEPT !.step = "nbr_scan", !.seed = e])
       ELSE /\ neighbors_extended' =
                 [t \in 0 .. e |-> IF t = e THEN r.row ELSE neighbors_extended[t]]
            /\ counter' =
                 [t \in 0 .. e |-> IF t = e THEN r.counter
                                   ELSE IF e = 0 THEN 0 ELSE counter[t]]
            /\ hist' = [NoHist EXCEPT !.step = "nbr_scan", !.seed = e]
            /\ pc' = "nbr_scan"
            /\ UNCHANGED << nodes, neighbors >>
            /\ NbrUnchanged

\* fold onto the design indices and return the rows of the representative
\* elements (rem_islands.py 77-86)
FoldNeighbors ==
  /\ pc = "nbr_scan"
  /\ Cardinality(DOMAIN neighbors_extended) = Copies * N
  /\ neighbors' =
       [k \in Elems |->
          [c \in 1 .. NeighborSlots |-> Fold(neighbors_extended[fsym[k][0]][c])]]
  /\ hist' = [NoHist EXCEPT !.step = "nbr_fold"]
  /\ pc' = "nbr_done"
  /\ UNCHANGED << nodes, counter, neighbors_extended >>
  /\ NbrUnchanged

NextNbr == BuildNodes \/ ScanElement \/ FoldNeighbors

SpecNbr == InitNbr /\ [][NextNbr]_vars

\* ------------------------------------------- the open operator on its own
\* morphology matrices in which every element is in its own row: the one the
\* loop reads, and two that are not symmetric (the row of an element holds
\* the next element of its grid row, or the element below and the one before)
MfForward ==
  [i \in Elems |-> [k \in Elems |->
     IF k = i \/ (k = i + 1 /\ ColOf(i) < Ns - 1) THEN 1 ELSE 0]]
MfSkew ==
  [i \in Elems |-> [k \in Elems |->
     IF k = i \/ k = i + Ns \/ (k = i - 1 /\ ColOf(i) > 0) THEN 2 ELSE 0]]
MfFamily == {MfLoaded, MfForward, MfSkew}

\* the open operator (basecell_silp.py 545-547) applied to any topology y
\* with any of the matrices
InitOpen ==
  /\ pc = "open"
  /\ y \in Topologies
  /\ Mf \in MfFamily
  /\ runs = 0 /\ nuval = 0 /\ Eymin = 0
  /\ x = x_init /\ Kg_coo = x_init /\ Ug = x_init /\ factor = x_init
  /\ nuhat = NuOf(x_init) /\ Eyhat = EyOf(x_init)
  /\ obj = 0 /\ fEy = 0 /\ eta_Ey = 0
  /\ fil_Ey = [e \in Elems |-> 0] /\ fil_obj = [e \in Elems |-> 0]
  /\ mom_obj = [e \in Elems |-> 0]
  /\ top_opt = x_init /\ nu_opt = 0 /\ Ey_opt = 0 /\ obj_opt = 0
  /\ waiting = 0 /\ it = 0
  /\ elist = UnboundList
  /\ continent_vol = Unbound
  /\ inputmat = InputSet /\ fid_lim = MaxRuns
  /\ rsen = 0 /\ Sf = << >> /\ rmor = 0
  /\ neighbors = GridNeighbors
  /\ NoNeighborWork
  /\ hist = NoHist

OpenUnchanged ==
  UNCHANGED << runs, nuval, Eymin, x, Kg_coo, Ug, factor, nuhat, Eyhat, obj, fEy,
               eta_Ey, fil_Ey, fil_obj, mom_obj, top_opt, nu_opt, Ey_opt, obj_opt,
               waiting, it, elist, continent_vol, loaded >>

\* y[Mf[~y,:].indices] = False (basecell_silp.py 546); hist.x0 keeps the
\* topology before the step
ErodeStep ==
  /\ pc = "open"
  /\ y' = Erode(y)
  /\ hist' = [NoHist EXCEPT !.step = "erode", !.x0 = y]
  /\ pc' = "eroded"
  /\ OpenUnchanged

\* y[Mf[y,:].indices] = True (basecell_silp.py 547); hist.ysel keeps the
\* eroded topology
DilateStep ==
  /\ pc = "eroded"
  /\ y' = Dilate(y)
  /\ hist' = [hist EXCEPT !.step = "dilate", !.ysel = y, !.yopen = Dilate(y)]
  /\ pc' = "opened"
  /\ OpenUnchanged

NextOpen == ErodeStep \/ DilateStep

SpecOpen == InitOpen /\ [][NextOpen]_vars

\* ---------------------------------------------------- the flood fill on its own
\* a neighbour table that marks the sides of the design domain with -1
BoundaryNeighbors ==
  [e \in Elems |->
     << IF ColOf(e) > 0 THEN e - 1 ELSE -1,
        IF ColOf(e) < Ns - 1 THEN e + 1 ELSE -1,
        IF RowOf(e) > 0 THEN e - Ns ELSE -1,
        IF RowOf(e) < Ns - 1 THEN e + Ns ELSE -1 >>]
NeighborFamily == {GridNeighbors, BoundaryNeighbors}
\* seeds of the calls: a corner, an interior element, the last element
VisitSeeds == {0, Ns + 1, N - 1}

\* a call visit(e,x,continent,neighbors) with continent all False, for any
\* topology x, any material seed e of VisitSeeds and any of the tables
InitVisit ==
  /\ pc = "visit"
  /\ x \in Topologies
  /\ neighbors \in NeighborFamily
  /\ \E e \in VisitSeeds : e \in x /\ hist = [NoHist EXCEPT !.seed = e]
  /\ runs = 0 /\ nuval = 0 /\ Eymin = 0
  /\ y = x_init /\ Kg_coo = x_init /\ Ug = x_init /\ factor = x_init
  /\ nuhat = NuOf(x_init) /\ Eyhat = EyOf(x_init)
  /\ obj = 0 /\ fEy = 0 /\ eta_Ey = 0
  /\ fil_Ey = [e \in Elems |-> 0] /\ fil_obj = [e \in Elems |-> 0]
  /\ mom_obj = [e \in Elems |-> 0]
  /\ top_opt = x_init /\ nu_opt = 0 /\ Ey_opt = 0 /\ obj_opt = 0
  /\ waiting = 0 /\ it = 0
  /\ elist = UnboundList
  /\ continent_vol = Unbound
  /\ inputmat = InputSet /\ fid_lim = MaxRuns
  /\ rsen = 0 /\ Sf = << >> /\ rmor = 0 /\ Mf = MfLoaded
  /\ NoNeighborWork

\* the call returns (rem_islands.py 45-50): hist.continent is the array
\* continent after the call
VisitCall ==
  /\ pc = "visit"
  /\ hist' = [hist EXCEPT !.step = "visit",
                          !.continent = visit(hist.seed, x, {}, neighbors)]
  /\ pc' = "visited"
  /\ UNCHANGED << runs, nuval, Eymin, x, y, Kg_coo, Ug, factor, nuhat, Eyhat, obj, fEy,
                  eta_Ey, fil_Ey, fil_obj, mom_obj, top_opt, nu_opt, Ey_opt, obj_opt,
                  waiting, it, elist, continent_vol, loaded >>

NextVisit == VisitCall

SpecVisit == InitVisit /\ [][NextVisit]_vars

\* ================================================================ properties
\* a pass of the loop, or the final island removal, has just completed
AfterIterate == hist.step = "iterate"
AfterFinalize == hist.step = "finalize"

\* the seeds of the scan that are material in t
MaterialSeeds(t) == {Seeds[i] : i \in 1 .. Len(Seeds)} \cap t
\* a flood fill from any material seed of t marks every material element of t
Connected(t) == \A e \in MaterialSeeds(t) : visit(e, t, {}, GridNeighbors) = t

\* ---------------------------------------------------------------------- C1
\* C1 as stated: at the end of every pass of the loop, rollback or not, the
\* running topology has Eyhat >= Eymin.
C1_FloorEveryPass == AfterIterate => Eyhat >= Eymin

\* C1 (amended): at the end of every pass Eyhat is the modulus of the running
\* topology x; a pass that did not take the rollback branch ends with
\* Eyhat >= Eymin, and so does every pass whose candidate is accepted.  A
\* pass that took the rollback branch ends on the dilation of the rolled
\* back topology, whose modulus is recomputed but not tested again.
C1_FloorUnlessRollback ==
  AfterIterate =>
    /\ Eyhat = EyOf(x)
    /\ fEy = Eyhat - Eymin
    /\ (~hist.rolled => Eyhat >= Eymin)
    /\ (hist.accept => Eyhat >= Eymin)
    /\ (hist.rolled => x = hist.y /\ hist.Ey_test < Eymin)

\* a pass changed the topology, kept it, and ended exactly on the floor
C1_Witness ==
  /\ AfterIterate /\ hist.updated /\ ~hist.rolled
  /\ Eymin > 0 /\ Eyhat = Eymin /\ hist.Ey0 > Eymin

\* ---------------------------------------------------------------------- C2
\* C2: the topology emitted as top_opt after the final island removal has no
\* islands: a flood fill from any material element of the first row or the
\* first column marks every material element of top_opt.
C2_EmittedConnected == AfterFinalize => Connected(top_opt)

\* ---------------------------------------------------------------------- C3
\* C3: in every pass that does not take the rollback branch, x at the end of
\* the pass differs from x at the start of the pass in at most dXmax
\* elements (the sub-solver itself changes at most dXmax elements).
C3_BudgetRespected ==
  AfterIterate /\ ~hist.rolled /\ Cardinality(SymDiff(hist.x0, hist.ysel)) <= dXmax
    => Cardinality(SymDiff(x, hist.x0)) <= dXmax

\* ---------------------------------------------------------------------- C4
\* the island removal has been applied, for the second time
AfterIslands == hist.step = "islands"
SecondApply == pc = "islands" /\ it = 1 /\ it' = 2

\* C4 as stated: for every topology y, applying the island removal of the
\* loop and then applying it again to the result, with the same sensitivity
\* field, changes nothing the second time.
C4_Idempotent == AfterIslands /\ it = 2 => y = hist.yopen

\* the first application left nothing for a second one to remove: it
\* accepted no continent, or it removed every island and its continent is
\* empty or holds element 0, the first seed of the scan
SettledAfterFirst ==
  \/ ~hist.dominant
  \/ /\ hist.removed = hist.islands
     /\ (hist.continent = {} \/ 0 \in hist.continent)

\* C4 (amended): the second application changes nothing exactly when the
\* first one accepted no continent, or removed all the islands it found (at
\* most dXmax) against a continent that is empty or holds element 0.  In
\* the other cases the second application removes further elements: the
\* islands the budget dXmax left, or, when element 0 is void, elements of
\* the continent itself, judged by the continent_vol the first scan left.
C4_IdempotentWhenSettled ==
  [][SecondApply /\ AfterIslands => (y' = y <=> SettledAfterFirst)]_vars

\* the first application removed islands and the second one, which accepted
\* the same continent again, changed nothing
C4_Witness ==
  /\ AfterIslands /\ it = 2
  /\ hist.x0 # hist.yopen /\ y = hist.yopen
  /\ hist.dominant /\ hist.continent = y /\ y # {}

\* ---------------------------------------------------------------------- C5
\* the island removal of the loop or the final one accepted a continent
ContinentAccepted == (AfterIterate \/ AfterFinalize) /\ hist.dominant
\* the flood-fill region of seed number i in the topology the scan ran on
RegionOfSeed(i) == visit(Seeds[i], hist.yopen, {}, GridNeighbors)

\* C5: whenever the island removal accepts a continent, the continent is the
\* flood-fill region of a seed that is material in y, the first region in
\* scan order that holds more than 50% of the material of y, and the scan
\* stopped at that seed; the accepted continent is never empty and the test
\* never uses a continent_vol computed for another topology.
C5_ContinentIsFirstDominantRegion ==
  ContinentAccepted =>
    /\ hist.seed \in 1 .. Len(Seeds)
    /\ Seeds[hist.seed] \in hist.yopen
    /\ hist.continent = RegionOfSeed(hist.seed)
    /\ hist.continent # {}
    /\ continent_vol = Cardinality(hist.continent)
    /\ Dominant(Cardinality(hist.continent), hist.yopen)
    /\ \A j \in 1 .. (hist.seed - 1) :
         Seeds[j] \in hist.yopen
           => ~Dominant(Cardinality(RegionOfSeed(j)), hist.yopen)

\* ---------------------------------------------------------------------- C6
\* the island disposition of a pass: islands against an accepted continent
\* ranked by the magnitude of a field
DisposedBy(field) ==
  IF Cardinality(hist.islands) > dXmax
  THEN /\ Cardinality(hist.removed) = dXmax
       /\ hist.removed \subseteq hist.islands
       /\ \A a \in hist.removed : \A b \in hist.islands \ hist.removed :
            Abs(field[a]) <= Abs(field[b])
  ELSE hist.removed = hist.islands

\* C6 as stated: when a continent is accepted in the loop and there are more
\* than dXmax islands, exactly dXmax islands are set to void, those with the
\* smallest absolute filtered objective sensitivity; with at most dXmax
\* islands all of them are set to void.
C6_SmallestObjectiveSensitivity ==
  AfterIterate /\ hist.dominant
    => DisposedBy(hist.filobj0) /\ hist.yisl = hist.yopen \ hist.removed

\* C6 (amended): the same, with the islands ranked by the absolute value of
\* the filtered modulus sensitivity fil_Ey (ties in any order).
C6_SmallestModulusSensitivity ==
  AfterIterate /\ hist.dominant
    => DisposedBy(hist.fil0) /\ hist.yisl = hist.yopen \ hist.removed

\* more islands than the budget against a non-empty continent, and an island
\* of larger modulus sensitivity than the removed one was kept
C6_Witness ==
  /\ AfterIterate /\ hist.dominant /\ hist.continent # {}
  /\ Cardinality(hist.islands) > dXmax
  /\ \E a \in hist.removed : \E b \in hist.islands \ hist.removed :
       Abs(hist.fil0[a]) < Abs(hist.fil0[b])

\* ---------------------------------------------------------------------- C7
\* the acceptance test of the pass, on the best values held before it
PassedAcceptance ==
  /\ \/ obj < hist.obj0
     \/ Abs(nuhat - nuval) < Abs(hist.nu0 - nuval)
  /\ Eyhat >= Eymin
PoissonErrorImproved == Abs(nuhat - nuval) < Abs(hist.nu0 - nuval)
BestUnchanged == top_opt = hist.top0 /\ nu_opt = hist.nu0 /\ Ey_opt = hist.Ey0

\* C7 as stated: a pass whose candidate passes the acceptance test resets
\* waiting to 0 and sets (top_opt, nu_opt, Ey_opt) to the current
\* (x, nuhat, Eyhat); every other pass increases waiting by exactly 1 and
\* leaves top_opt, nu_opt, Ey_opt and obj_opt unchanged.
C7_AcceptStoresBest ==
  AfterIterate =>
    IF PassedAcceptance
    THEN waiting = 0 /\ top_opt = x /\ nu_opt = nuhat /\ Ey_opt = Eyhat
    ELSE waiting = hist.waiting0 + 1 /\ BestUnchanged /\ obj_opt = hist.obj0

\* C7 (amended): a pass whose candidate passes the acceptance test resets
\* waiting to 0 and sets obj_opt to obj; it sets (top_opt, nu_opt, Ey_opt)
\* to the current (x, nuhat, Eyhat) only if the Poisson-ratio error improved,
\* and leaves them unchanged if only the objective improved.  Every other
\* pass increases waiting by exactly 1 and leaves top_opt, nu_opt, Ey_opt
\* and obj_opt unchanged; the loop ends when waiting reaches patience.
C7_AcceptStoresBestOnPoissonGain ==
  AfterIterate =>
    /\ IF PassedAcceptance
       THEN /\ waiting = 0 /\ obj_opt = obj
            /\ IF PoissonErrorImproved
               THEN top_opt = x /\ nu_opt = nuhat /\ Ey_opt = Eyhat
               ELSE BestUnchanged
       ELSE waiting = hist.waiting0 + 1 /\ BestUnchanged /\ obj_opt = hist.obj0
    /\ (pc = "finalize" <=> waiting = patience)

\* a candidate accepted for its objective alone: the best topology is kept
C7_Witness ==
  /\ AfterIterate /\ PassedAcceptance /\ ~PoissonErrorImproved
  /\ top_opt # x /\ obj_opt < hist.obj0 /\ hist.waiting0 > 0

\* ---------------------------------------------------------------------- C8
\* C8: in every pass whose post-step margin fEy_test is negative, x right
\* after the rollback call equals x at the start of the pass, and x at the
\* end of the pass is the Mf-dilation of that topology; also when the step
\* left y equal to x, so that no update came before the rollback.
C8_RollbackExact ==
  AfterIterate /\ hist.rolled
    => hist.x_rb = hist.x0 /\ x = Dilate(hist.x0)

SfilReturned == pc = "sfil_done"

\* C10: for every design element e and every radius rsen > 0, the entries of
\* row e of the filter get_sfil returns, after the composition with Q, sum
\* to 1: the weights rsen - distance of the extended elements within rsen,
\* folded onto their design index, over the sum of those weights.
C10_RowsSumToOne ==
  SfilReturned =>
    \A e \in Elems :
      /\ Sf[e].den > 0
      /\ SumOver(Sf[e].num, Elems) = Sf[e].den
      /\ \A k \in Elems : Sf[e].num[k] >= 0

\* a returned filter with a row on which several copies of the extended
\* mesh fold onto fewer design elements
C10_Witness ==
  /\ SfilReturned /\ rsen > 3
  /\ \E e \in Elems :
       /\ Sf[e].csize > Cardinality({k \in Elems : Sf[e].num[k] > 0})
       /\ \E k \in Elems : k # e /\ Sf[e].num[k] > 0

\* --------------------------------------------------------------------- C11
\* get_sfil and get_mope have both returned
FiltersReturned == pc = "mope_done"
\* some copy of design element k in the extended mesh has its centroid within
\* distance r of the centroid of the representative element sym[e,0]
Near(e, k, r) ==
  \E j \in 0 .. (Copies - 1) :
    Dist2(elepos[fsym[e][0]], elepos[fsym[k][j]]) <= r * r

\* C11: entry (e, k) of the operator get_sfil returns is nonzero only if a
\* copy of k lies within rsen of the representative of e; entry (e, k) of
\* the operator get_mope returns is nonzero exactly if a copy of k lies
\* within rmor of the representative of e.
C11_FiltersLocal ==
  FiltersReturned =>
    \A e \in Elems : \A k \in Elems :
      /\ (Sf[e].num[k] # 0 => Near(e, k, rsen))
      /\ (Mf[e][k] # 0 <=> Near(e, k, rmor))

\* with equal radii, an element at exactly the radius has a zero weight in Sf
\* and an entry in Mf, on a row that does not reach every element
C11_Witness ==
  /\ FiltersReturned /\ rsen = rmor
  /\ \E e \in Elems :
       /\ \E k \in Elems : Sf[e].num[k] = 0 /\ Mf[e][k] # 0
       /\ \E k \in Elems : Mf[e][k] = 0

\* --------------------------------------------------------------------- C12
\* no material seed of t grows to a region with more than 50% of the material
NoDominantRegion(t) ==
  \A e \in MaterialSeeds(t) :
    ~Dominant(Cardinality(visit(e, t, {}, GridNeighbors)), t)

\* C12: if no material element of the first row or first column of y grows
\* to a region with more than 50% of the material of y (also when no seed is
\* material), the island removal leaves y unchanged, in every pass of the
\* loop and in the final island removal.
C12_NoPruningWithoutContinent ==
  (AfterIterate \/ AfterFinalize) /\ NoDominantRegion(hist.yopen)
    => hist.yisl = hist.yopen

\* --------------------------------------------------------------------- C13
\* C13 as stated: an element is eligible iff it is material and its momentum
\* or its filtered modulus sensitivity is non-negative, or it is void and
\* its momentum or its filtered modulus sensitivity is non-positive.
C13_EligibleBySameSign ==
  AfterIterate =>
    hist.sel =
      {e \in Elems :
         \/ (e \in hist.x0 /\ (hist.mom0[e] >= 0 \/ hist.fil0[e] >= 0))
         \/ (e \notin hist.x0 /\ (hist.mom0[e] <= 0 \/ hist.fil0[e] <= 0))}

\* C13 (amended): the modulus sensitivity enters with the opposite sign to
\* the momentum.  An element is eligible iff it is material and its momentum
\* is non-negative or its filtered modulus sensitivity is non-positive, or
\* it is void and its momentum is non-positive or its filtered modulus
\* sensitivity is non-negative; every other element is pinned and keeps its
\* state in the solver's output.
C13_EligibleByFlipGain ==
  AfterIterate =>
    /\ hist.sel =
         {e \in Elems :
            \/ (e \in hist.x0 /\ (hist.mom0[e] >= 0 \/ hist.fil0[e] <= 0))
            \/ (e \notin hist.x0 /\ (hist.mom0[e] <= 0 \/ hist.fil0[e] >= 0))}
    /\ \A e \in Elems \ hist.sel : e \in hist.ysel <=> e \in hist.x0

\* a pass that pinned a material element of positive modulus sensitivity and
\* negative momentum, and flipped a material element that was eligible by
\* its non-positive modulus sensitivity alone
C13_Witness ==
  /\ AfterIterate
  /\ \E e \in hist.x0 \ hist.sel : hist.fil0[e] > 0 /\ hist.mom0[e] < 0
  /\ \E e \in hist.x0 \ hist.ysel : hist.fil0[e] <= 0 /\ hist.mom0[e] < 0
  /\ \E e \in hist.sel : e \notin hist.x0

\* --------------------------------------------------------------------- C14
\* the solver a pass has called, by the dispatch rule given
SolverIs(beso) ==
  IF hist.sel = {} THEN hist.solver = "none" /\ hist.ysel = hist.x0
  ELSE IF beso THEN hist.solver = "BESO" ELSE hist.solver = "ILP"

\* C14 as stated: in every pass with an eligible element solve_BESO is
\* called whenever Eymin is numerically zero, whatever the slack eta_Ey, and
\* solve_ILP otherwise.
C14_BesoWheneverFloorZero == AfterIterate => SolverIs(Eymin <= 0)

\* C14 (amended): in every pass with an eligible element solve_BESO is
\* called iff Eymin + eta_Ey is numerically zero, eta_Ey being the slack
\* max(Eyhat - Eymin - Eyvar, 0) the pass started with; with Eymin = 0 that
\* is only when the modulus is at most Eyvar, and solve_ILP is called while
\* the modulus is larger.  Pinned elements keep their state in y.
C14_BesoWhenFloorAndSlackZero ==
  AfterIterate =>
    /\ SolverIs(Eymin + hist.eta0 <= 0)
    /\ \A e \in Elems \ hist.sel : e \in hist.ysel <=> e \in hist.x0

\* a pass without floor and without slack: solve_BESO was called and flipped
\* an element, after the same run had called solve_ILP
C14_Witness ==
  /\ AfterIterate /\ Eymin = 0 /\ hist.eta0 = 0
  /\ hist.solver = "BESO" /\ hist.ysel # hist.x0
  /\ Elems \ hist.sel # {}
  /\ it > 1

\* --------------------------------------------------------------------- C15
\* C15: after the stagnation guard of every pass the candidate y differs from
\* the topology x the pass started with, for every x (all material and all
\* void included), so that every pass requests a physical update.
C15_GuardGivesProgress ==
  AfterIterate => hist.ystep # hist.x0 /\ hist.updated

\* --------------------------------------------------------------------- C16
\* the open operator has been applied: hist.x0 before the erosion, hist.ysel
\* after it, y after the dilation
Opened == pc = "opened"
\* the neighbour set of j: the columns with an entry in row j
RowSet(j) == {k \in Elems : Mf[j][k] # 0}
\* the elements that have j in their neighbour set
ColSet(j) == {i \in Elems : Mf[i][j] # 0}
MfSymmetric == \A i \in Elems : \A k \in Elems : Mf[i][k] # 0 <=> Mf[k][i] # 0

\* C16 as stated: after the erosion j is material iff it was material and no
\* element of its own neighbour set was void; after the dilation j is
\* material iff it was material after the erosion or an element of its own
\* neighbour set was; for every Mf with each element in its own row.
C16_OpenByOwnRow ==
  Opened =>
    \A j \in Elems :
      /\ j \in hist.ysel <=> (j \in hist.x0 /\ RowSet(j) \subseteq hist.x0)
      /\ j \in y <=> (j \in hist.ysel \/ RowSet(j) \cap hist.ysel # {})

\* C16 (amended): the operator works from the rows of the elements that
\* force, not from the row of the element that is forced.  After the erosion
\* j is material iff it was material and no void element has j in its
\* neighbour set; after the dilation j is material iff it was material after
\* the erosion or an element that was material after the erosion has j in
\* its neighbour set.  For a symmetric Mf that is the statement by j's own
\* neighbour set.
C16_OpenByForcingRows ==
  Opened =>
    /\ \A j \in Elems :
         /\ j \in hist.ysel <=> (j \in hist.x0 /\ ColSet(j) \subseteq hist.x0)
         /\ j \in y <=> (j \in hist.ysel \/ ColSet(j) \cap hist.ysel # {})
    /\ (MfSymmetric =>
          \A j \in Elems :
            /\ j \in hist.ysel <=> (j \in hist.x0 /\ RowSet(j) \subseteq hist.x0)
            /\ j \in y <=> (j \in hist.ysel \/ RowSet(j) \cap hist.ysel # {}))

\* with a matrix that is not symmetric, the erosion voided an element whose
\* own neighbour set was all material, and the dilation left material
C16_Witness ==
  /\ Opened /\ ~MfSymmetric
  /\ \E j \in hist.x0 \ hist.ysel : RowSet(j) \subseteq hist.x0
  /\ hist.ysel # {} /\ y # hist.x0

\* --------------------------------------------------------------------- C17
\* the call of visit has returned
Visited == pc = "visited"
\* the material elements reachable from the elements of S along entries of
\* the table that are not -1, through material elements
RECURSIVE ReachFrom(_)
ReachFrom(S) ==
  LET step == {k \in x : \E i \in S : \E c \in 1 .. 4 : neighbors[i][c] = k}
  IN IF step \subseteq S THEN S ELSE ReachFrom(S \cup step)

\* C17: for every table with entries 0..N-1 or -1, every topology x and
\* every material seed e, visit on an all-false continent returns with
\* continent true exactly on the material elements reachable from e along
\* entries that are not -1; no element is marked by following a -1.
C17_FloodFillExact ==
  Visited => hist.continent = ReachFrom({hist.seed})

\* --------------------------------------------------------------------- C18
\* C18: within a run waiting is the number of consecutive most recent passes
\* that failed the acceptance test (hist.fails counts them) and never
\* exceeds patience; the loop ends at the end of the first pass after which
\* waiting equals patience, never after an accepted pass and never while
\* waiting < patience.
C18_PatienceEndsLoop ==
  /\ waiting <= patience
  /\ (pc = "iterate" => waiting < patience)
  /\ (pc = "finalize" => waiting = patience /\ AfterIterate /\ ~hist.accept)
  /\ (AfterIterate =>
        /\ hist.accept <=> PassedAcceptance
        /\ waiting = hist.fails
        /\ hist.fails = (IF hist.accept THEN 0 ELSE hist.waiting0 + 1)
        /\ (pc = "finalize" <=> waiting = patience))

\* the loop ended on patience failed passes in a row after a run of passes
\* of which at least one was accepted
C18_Witness ==
  /\ AfterIterate /\ pc = "finalize" /\ waiting = patience
  /\ it > patience + 1 /\ top_opt # x_init

\* --------------------------------------------------------------------- C19
\* the scan of the pass tested continent_vol before it grew any region: the
\* first seed, element 0, was void
TestedBeforeGrown == 0 \notin hist.yopen
\* the rollback of the pass used elist without an update before it
RolledBackUnwritten == hist.rolled /\ ~hist.updated

\* C19: every run starts from the baseline, or writes what it reads before
\* it reads it: the first pass of a run neither tests a continent_vol nor
\* rolls back with an elist that it has not itself assigned, so that the run
\* of an input does not depend on the inputs processed before it.
C19_FirstPassReadsOwnState ==
  AfterIterate /\ it = 1 => ~TestedBeforeGrown /\ ~RolledBackUnwritten

\* --------------------------------------------------------------------- C20
\* get_neighbors has returned
NeighborsReturned == pc = "nbr_done"
\* the elements of the extended mesh, other than t, that share exactly 2
\* mesh nodes with t
EdgeMates(t) ==
  {u \in Expanded \ {t} :
     Cardinality({finci[t][c] : c \in 1 .. 4} \cap {finci[u][d] : d \in 1 .. 4}) = 2}
\* the positions of a row that hold an entry
Filled(row) == {c \in 1 .. NeighborSlots : row[c] # -1}

\* C20: get_neighbors runs without indexing outside its 6-slot node table or
\* its 4-slot neighbour table; for every element of the extended mesh the
\* entries found are exactly the elements that share 2 nodes with it, each
\* listed once; and for every design element k the row returned is the row
\* of the representative element fsym[k,0], folded onto design indices, -1
\* where there is no entry.
C20_NeighborsAreEdgeMates ==
  /\ pc # "error"
  /\ (pc = "nbr_scan" \/ NeighborsReturned =>
        /\ DOMAIN nodes = NodeSet /\ Cardinality(NodeSet) = NodeCount
        /\ \A t \in DOMAIN neighbors_extended :
             /\ {neighbors_extended[t][c] : c \in Filled(neighbors_extended[t])}
                  = EdgeMates(t)
             /\ Cardinality(Filled(neighbors_extended[t])) = Cardinality(EdgeMates(t))
             /\ counter[t] = Cardinality(EdgeMates(t))
             /\ counter[t] <= NeighborSlots)
  /\ (NeighborsReturned =>
        \A k \in Elems : \A c \in 1 .. NeighborSlots :
          LET ee == neighbors_extended[fsym[k][0]][c]
          IN IF ee = -1 THEN neighbors[k][c] = -1
             ELSE /\ neighbors[k][c] \in Elems
                  /\ \E j \in 0 .. (Copies - 1) : fsym[neighbors[k][c]][j] = ee)

\* the table is returned for a mesh with a node of 6 elements and with
\* elements on the rim of the extended mesh that have fewer than 4
\* neighbours; every design element has 4 entries, and its row holds the
\* same design indices as the row of the table the loop reads
C20_Witness ==
  /\ NeighborsReturned
  /\ \E n \in NodeSet : \A i \in 1 .. NodeSlots : nodes[n][i] # -1
  /\ \E t \in Expanded : Cardinality(Filled(neighbors_extended[t])) < NeighborSlots
  /\ \A k \in Elems :
       /\ Cardinality(Filled(neighbors[k])) = NeighborSlots
       /\ {neighbors[k][c] : c \in 1 .. 4} = {GridNeighbors[k][c] : c \in 1 .. 4}

\* --------------------------------------------------------------------- C21
\* the Poisson-ratio error of the best topology so far
BestError == Abs(nu_opt - nuval)
\* a pass lowers the triple (best error, obj_opt, patience - waiting) in
\* lexicographic order: the best error drops, or it stays and obj_opt
\* drops, or both stay and waiting moves one step towards patience.  An
\* acceptance for the Poisson error may raise obj_opt, but lowers the error.
PassDescends ==
  \/ BestError' < BestError
  \/ BestError' = BestError /\ obj_opt' < obj_opt
  \/ /\ BestError' = BestError /\ obj_opt' = obj_opt
     /\ waiting' = waiting + 1 /\ waiting' <= patience
\* every pass that runs to its end descends; the errors and objectives are
\* values of finitely many topologies, so no run has infinitely many passes
RankedPasses == [][pc = "iterate" /\ pc' # "error" => PassDescends]_vars

\* C21: every run terminates: for every input the loop reaches
\* waiting == patience and the final island removal is executed; no run
\* stops before it, and there is no infinite sequence of passes in which
\* acceptances keep resetting waiting.
C21_EveryRunFinalizes == [](pc # "error") /\ RankedPasses

\* --------------------------------------------------------------------- C22
\* C22: for every input, the (top_opt, Ey_opt) recorded after the final
\* island removal satisfies Ey_opt > Eymin - small, also when no pass was
\* accepted (top_opt is the baseline topology) and when the final island
\* removal changed top_opt.
C22_EmittedAboveFloor == AfterFinalize => Ey_opt >= Eymin

====
